---- MODULE Spec2Model ----
(***************************************************************************)
(* Decision-graph troubleshooting service: the nodes / connections /       *)
(* sessions tables and the handlers of routes/troubleshoot.rs, together    *)
(* with the admin handlers that mutate the graph underneath a session.     *)
(*                                                                         *)
(* Every SQL statement is atomic.  submit_answer is split where another    *)
(* request can interleave with an effect on the session row: SubmitLoad is *)
(* the SELECT of the session row and the completed check, SubmitStore is   *)
(* the rest of the handler up to the single UPDATE and the response.  The  *)
(* other handlers are one action each.                                     *)
(***************************************************************************)
EXTENDS Integers, Sequences, FiniteSets, TLC

\* ------------------------------------------------------------- bounds
MaxSessions == 1
MaxCalls == 2
MaxSteps == 2
MaxAdminOps == 1
MaxTime == 1
MaxCacheCalls == 2
MaxCacheTasks == 3
MaxClock == 1
CacheTtl == 1
CacheMaxSize == 2
MaxEdits == 2
MaxRateTime == 3
MaxRequests == 2
WindowDuration == 1

\* ------------------------------------------------------------- values
None == <<>>
Some(x) == <<x>>

NodeIds == 1..4
ConnIds == 1..3
SessionIds == 1..MaxSessions
CallIds == 1..MaxCalls
OrderIndexes == 0..1
RequestCategories == {"brush", "ghost"}
Categories == {"root", "brush"}

\* ------------------------------------------------------------- state
VARIABLES
    nodes,        \* nodes table: id -> row (exists = FALSE: no such row)
    connections,  \* connections table: id -> row
    sessions,     \* sessions table: session_id -> row or NoSession
    calls,        \* in-flight submit_answer requests
    resp,         \* response of the handler that completed last
    now,          \* NOW() / Utc::now()
    adminOps,     \* number of graph mutations performed
    started,      \* history: the node start_session returned for a session
    concluded,    \* history: a submit_answer returned is_conclusion = true
    accepted,     \* history: number of submit_answer calls that returned Ok
    store,        \* Cache.store: key -> CacheEntry or NoEntry
    clock,        \* Instant::now()
    cacheCalls,   \* cache operations that hold the RwLock
    got,          \* result of the cache read that completed last
    written,      \* history: the last set / invalidate / clear / eviction of each key
    entries,      \* RateLimiter.entries: ip -> RateLimitEntry or NoRateEntry
    rateResp,     \* result of the check_rate_limit that completed last
    granted       \* history: per ip, the number of Ok results at each instant

engineVars == <<nodes, connections, sessions, calls, resp, now, adminOps,
                started, concluded, accepted>>
cacheVars == <<store, clock, cacheCalls, got, written>>
rateVars == <<entries, rateResp, granted>>
vars == <<nodes, connections, sessions, calls, resp, now, adminOps,
          started, concluded, accepted,
          store, clock, cacheCalls, got, written,
          entries, rateResp, granted>>

graphVars == <<nodes, connections>>
historyVars == <<started, concluded, accepted>>

\* ------------------------------------------------------------- tables
Node(category, node_type, text, semantic_id) ==
    [exists |-> TRUE, category |-> category, node_type |-> node_type,
     text |-> text, semantic_id |-> semantic_id, is_active |-> TRUE]

Connection(from, to, label, order_index) ==
    [exists |-> TRUE, from_node_id |-> from, to_node_id |-> to,
     label |-> label, order_index |-> order_index, is_active |-> TRUE]

\* steps is a JSONB column: steps_is_array says whether the stored value is a
\* JSON array, and steps holds its items when it is
NoSession == [exists |-> FALSE, steps |-> <<>>, steps_is_array |-> TRUE,
              completed_at |-> None, final_conclusion |-> None,
              abandoned |-> FALSE]

\* INSERT INTO sessions (..., steps, ..., abandoned) VALUES (..., [], ..., false)
NewSession == [exists |-> TRUE, steps |-> <<>>, steps_is_array |-> TRUE,
               completed_at |-> None, final_conclusion |-> None,
               abandoned |-> FALSE]

SeedNodes ==
    <<Node("root", "question", "Select issue", Some("start")),
      Node("brush", "question", "Is brush worn?", Some("brush_start")),
      Node("brush", "conclusion", "Replace brush", None),
      Node("brush", "question", "Check motor?", None)>>

SeedConnections ==
    <<Connection(1, 2, "Brush", 0),
      Connection(2, 3, "Yes", 0),
      Connection(2, 4, "No", 1)>>

\* ------------------------------------------------------------- responses
Response(op, sid, kind, node, options, is_conclusion, conclusion_text) ==
    [op |-> op, sid |-> sid, kind |-> kind, node |-> node, options |-> options,
     is_conclusion |-> is_conclusion, conclusion_text |-> conclusion_text]

Failure(op, sid, kind) == Response(op, sid, kind, None, <<>>, FALSE, None)

NoResponse == Failure("none", 0, "Ok")

IdleCall == [pc |-> "idle", sid |-> 0, conn |-> 0, steps |-> <<>>]

\* ------------------------------------------------------------- queries
\* serde_json::from_value::<Vec<Value>>(session.steps).unwrap_or_default():
\* a value that is not an array parses as the empty list
ParsedSteps(session) ==
    IF session.steps_is_array THEN session.steps ELSE <<>>

\* serde_json::from_value::<Uuid>(step["connection_id"]) succeeds
HasConnectionId(step) == "connection_id" \in DOMAIN step

\* SELECT ... FROM nodes WHERE semantic_id = $1 AND is_active = true
ActiveNodesBySemanticId(sem) ==
    {n \in NodeIds : nodes[n].exists /\ nodes[n].is_active
                     /\ nodes[n].semantic_id = Some(sem)}

\* format!("{}_start", category)
StartSemanticId(category) == category \o "_start"

\* SELECT ... FROM connections WHERE from_node_id = $1 AND is_active = true
ActiveOutgoing(n) ==
    {k \in ConnIds : connections[k].exists /\ connections[k].is_active
                     /\ connections[k].from_node_id = n}

\* ORDER BY order_index ASC: rows of equal order_index come in any order
OrderedByIndex(S) ==
    {seq \in [1..Cardinality(S) -> S] :
        /\ \A i, j \in 1..Cardinality(S) : i # j => seq[i] # seq[j]
        /\ \A i, j \in 1..Cardinality(S) :
              i < j => connections[seq[i]].order_index
                         <= connections[seq[j]].order_index}

NavigationOption(k) ==
    [connection_id |-> k, label |-> connections[k].label,
     target_category |-> nodes[connections[k].to_node_id].category]

\* the loop that fetches each connection's target node with fetch_one
TargetsExist(S) == \A k \in S : nodes[connections[k].to_node_id].exists

OptionLists(n) ==
    {[i \in 1..Len(seq) |-> NavigationOption(seq[i])] :
        seq \in OrderedByIndex(ActiveOutgoing(n))}

\* ------------------------------------------------------------- cache
CacheKeys == {"graph_root", "graph_brush", "graph_ghost"}
CacheValues == {"v1", "v2"}
CacheCallIds == 1..MaxCacheTasks

\* no entry under the key
NoEntry == [present |-> FALSE, value |-> "", expires_at |-> 0]

\* CacheEntry { value, expires_at }
CacheEntry(value, expires_at) ==
    [present |-> TRUE, value |-> value, expires_at |-> expires_at]

\* HashMap::new()
EmptyStore == [k \in CacheKeys |-> NoEntry]

\* store.keys() / store.len()
StoredKeys(st) == {k \in CacheKeys : st[k].present}

IdleCacheCall == [pc |-> "idle", op |-> "", key |-> "", value |-> ""]

CacheResult(op, key, value, total_entries, active_entries) ==
    [op |-> op, key |-> key, value |-> value,
     total_entries |-> total_entries, active_entries |-> active_entries]

NoCacheResult == CacheResult("", "", None, 0, 0)

NeverWritten == [kind |-> "none", value |-> "", at |-> 0]

Removed(kind) == [kind |-> kind, value |-> "", at |-> 0]

\* the set that stored the entry is remembered when it is invalidated
Invalidated(w) == [w EXCEPT !.kind = "invalidate"]

\* the set that stored the entry is remembered when a later set evicts it
Evicted(w) == [w EXCEPT !.kind = "evicted"]

\* Cache::new(ttl_seconds, max_size)
CacheInit ==
    /\ store = EmptyStore
    /\ clock = 0
    /\ cacheCalls = [c \in CacheCallIds |-> IdleCacheCall]
    /\ got = NoCacheResult
    /\ written = [k \in CacheKeys |-> NeverWritten]

\* ------------------------------------------------------------- rate limiter
Ips == {"ip1", "ip2"}
RateTimes == 0..MaxRateTime

NoRateEntry == [present |-> FALSE, count |-> 0, window_start |-> 0]

\* RateLimitEntry { count, window_start }
RateLimitEntry(count, window_start) ==
    [present |-> TRUE, count |-> count, window_start |-> window_start]

RateResult(ip, result) == [ip |-> ip, result |-> result]

NoRateResult == RateResult("", "")

\* RateLimiter::new(max_requests, window_seconds)
RateInit ==
    /\ entries = [ip \in Ips |-> NoRateEntry]
    /\ rateResp = NoRateResult
    /\ granted = [ip \in Ips |-> [t \in RateTimes |-> 0]]

\* ------------------------------------------------------------- Init
Init ==
    /\ CacheInit
    /\ RateInit
    /\ nodes = SeedNodes
    /\ connections = SeedConnections
    /\ sessions = [s \in SessionIds |-> NoSession]
    /\ calls = [c \in CallIds |-> IdleCall]
    /\ resp = NoResponse
    /\ now = 0
    /\ adminOps = 0
    /\ started = [s \in SessionIds |-> None]
    /\ concluded = [s \in SessionIds |-> FALSE]
    /\ accepted = [s \in SessionIds |-> 0]

\* the instants that some row carries
Stamped(t) ==
    \E s \in SessionIds :
        \/ sessions[s].completed_at = Some(t)
        \/ \E i \in 1..Len(sessions[s].steps) : sessions[s].steps[i].timestamp = t

\* time passes; it is observed only through the timestamps written, so the
\* clock moves on from an instant once a row was stamped with it
Tick ==
    /\ now < MaxTime
    /\ Stamped(now)
    /\ now' = now + 1
    /\ UNCHANGED <<nodes, connections, sessions, calls, resp, adminOps,
                   started, concluded, accepted>>
    /\ UNCHANGED cacheVars
    /\ UNCHANGED rateVars

\* ------------------------------------------------------------- start_session
\* the session id is a fresh uuid: the lowest id not yet in the table
FreshSessionIds ==
    {s \in SessionIds : ~sessions[s].exists
                        /\ \A t \in SessionIds : t < s => sessions[t].exists}

\* faulty variant: the category of the request is ignored
StartNodesGlobalOnly(category) == ActiveNodesBySemanticId("start")

StartNodes(category) ==
    IF category = None THEN ActiveNodesBySemanticId("start")
    ELSE ActiveNodesBySemanticId(StartSemanticId(category[1]))

StartSession(category) ==
    /\ \E s \in FreshSessionIds :
         IF StartNodes(category) = {}
         THEN /\ resp' = Failure("start_session", 0,
                            IF category = None THEN "Internal" ELSE "NotFound")
              /\ UNCHANGED <<sessions, started>>
         ELSE \E root \in StartNodes(category) :
                IF ~TargetsExist(ActiveOutgoing(root))
                THEN /\ resp' = Failure("start_session", 0, "NotFound")
                     /\ UNCHANGED <<sessions, started>>
                ELSE \E options \in OptionLists(root) :
                       /\ sessions' = [sessions EXCEPT ![s] = NewSession]
                       /\ started' = [started EXCEPT ![s] = Some(root)]
                       /\ resp' = Response("start_session", s, "Ok", Some(root),
                                           options, FALSE, None)
    /\ UNCHANGED <<nodes, connections, calls, now, adminOps, concluded, accepted>>
    /\ UNCHANGED cacheVars
    /\ UNCHANGED rateVars

\* ------------------------------------------------------------- submit_answer
\* faulty variant: the completed check is missing
SessionNeverCompleted(session) == FALSE

\* faulty variant: a session flagged abandoned is rejected like a completed one
SessionCompletedOrAbandoned(session) ==
    session.completed_at # None \/ session.abandoned

\* if session.completed_at.is_some()
SessionCompleted(session) == session.completed_at # None

\* faulty variant: the connection is looked up by id alone
ConnectionFound(k) == connections[k].exists

\* SELECT ... FROM connections WHERE id = $1 AND is_active = true
ActiveConnectionFound(k) == connections[k].exists /\ connections[k].is_active

\* matches!(node.node_type, NodeType::Conclusion)
IsConclusion(n) == nodes[n].node_type = "conclusion"

\* faulty variant: the step records the node the answer leads to
NewStepOfTarget(from, k) ==
    [node_id |-> connections[k].to_node_id,
     node_text |-> nodes[connections[k].to_node_id].text, connection_id |-> k,
     connection_label |-> connections[k].label, timestamp |-> now]

\* json!({node_id, node_text, connection_id, connection_label, timestamp})
NewStep(from, k) ==
    [node_id |-> from, node_text |-> nodes[from].text, connection_id |-> k,
     connection_label |-> connections[k].label, timestamp |-> now]

\* faulty variant: the push is made on the steps the row holds at the UPDATE
StoredStepsReread(c, from, k) ==
    Append(sessions[calls[c].sid].steps,
           [node_id |-> from, node_text |-> nodes[from].text, connection_id |-> k,
            connection_label |-> connections[k].label, timestamp |-> now])

\* steps.push(...) on the steps read by the SELECT at the top of the handler
StoredSteps(c, from, k) == Append(calls[c].steps, NewStep(from, k))

\* faulty variant: the UPDATE of a concluding answer leaves completed_at out
ConclusionUpdateNoTimestamp(session, steps, text) ==
    [session EXCEPT !.steps = steps, !.steps_is_array = TRUE,
                    !.final_conclusion = Some(text), !.abandoned = FALSE]

\* UPDATE sessions SET steps = $1, final_conclusion = $2,
\*                     completed_at = NOW(), abandoned = false
ConclusionUpdate(session, steps, text) ==
    [session EXCEPT !.steps = steps, !.steps_is_array = TRUE,
                    !.final_conclusion = Some(text),
                    !.completed_at = Some(now), !.abandoned = FALSE]

\* UPDATE sessions SET steps = $1
StepsUpdate(session, steps) ==
    [session EXCEPT !.steps = steps, !.steps_is_array = TRUE]

\* a new request takes the lowest idle slot
FreeCall(c) ==
    /\ calls[c].pc = "idle"
    /\ \A d \in CallIds : d < c => calls[d].pc # "idle"

\* SELECT id, steps, completed_at FROM sessions; the completed check
SubmitLoad(c, s, k) ==
    /\ FreeCall(c)
    /\ IF ~sessions[s].exists
       THEN /\ resp' = Failure("submit_answer", s, "NotFound")
            /\ UNCHANGED calls
       ELSE IF SessionCompleted(sessions[s])
       THEN /\ resp' = Failure("submit_answer", s, "BadRequest")
            /\ UNCHANGED calls
       ELSE /\ Len(ParsedSteps(sessions[s])) < MaxSteps
            /\ calls' = [calls EXCEPT ![c] =
                           [pc |-> "loaded", sid |-> s, conn |-> k,
                            steps |-> ParsedSteps(sessions[s])]]
            /\ UNCHANGED resp
    /\ UNCHANGED <<nodes, connections, sessions, now, adminOps,
                   started, concluded, accepted>>
    /\ UNCHANGED cacheVars
    /\ UNCHANGED rateVars

SubmitFails(s, kind) ==
    /\ resp' = Failure("submit_answer", s, kind)
    /\ UNCHANGED <<sessions, concluded, accepted>>

\* the connection and node lookups, the push, the UPDATE and the response
SubmitStore(c) ==
    LET s == calls[c].sid
        k == calls[c].conn
    IN
    /\ calls[c].pc = "loaded"
    /\ calls' = [calls EXCEPT ![c] = IdleCall]
    /\ IF ~ActiveConnectionFound(k)
       THEN SubmitFails(s, "NotFound")
       ELSE LET from == connections[k].from_node_id
                to == connections[k].to_node_id
                steps == StoredSteps(c, from, k)
            IN
            IF ~nodes[from].exists \/ ~nodes[to].exists
            THEN SubmitFails(s, "NotFound")
            ELSE IF IsConclusion(to)
            THEN /\ sessions' = [sessions EXCEPT ![s] =
                                   ConclusionUpdate(@, steps, nodes[to].text)]
                 /\ resp' = Response("submit_answer", s, "Ok", Some(to), <<>>,
                                     TRUE, Some(nodes[to].text))
                 /\ concluded' = [concluded EXCEPT ![s] = TRUE]
                 /\ accepted' = [accepted EXCEPT ![s] = @ + 1]
            ELSE IF ~TargetsExist(ActiveOutgoing(to))
            THEN SubmitFails(s, "NotFound")
            ELSE \E options \in OptionLists(to) :
                   /\ sessions' = [sessions EXCEPT ![s] = StepsUpdate(@, steps)]
                   /\ resp' = Response("submit_answer", s, "Ok", Some(to),
                                       options, FALSE, None)
                   /\ accepted' = [accepted EXCEPT ![s] = @ + 1]
                   /\ UNCHANGED concluded
    /\ UNCHANGED <<nodes, connections, now, adminOps, started>>
    /\ UNCHANGED cacheVars
    /\ UNCHANGED rateVars

\* ------------------------------------------------------------- get_session
\* the node and options of a question node, or the fetch_one failure
NodeResponses(s, n) ==
    IF ~TargetsExist(ActiveOutgoing(n))
    THEN {Failure("get_session", s, "NotFound")}
    ELSE {Response("get_session", s, "Ok", Some(n), options, FALSE, None) :
             options \in OptionLists(n)}

\* steps.is_empty(): the node with semantic_id = 'start'
StartResponses(s) ==
    IF ActiveNodesBySemanticId("start") = {}
    THEN {Failure("get_session", s, "NotFound")}
    ELSE UNION {NodeResponses(s, root) : root \in ActiveNodesBySemanticId("start")}

\* &steps[steps.len() - 1]
LastStep(steps) == steps[Len(steps)]

\* faulty variant: the replay takes the source of the last connection
CurrentNodeIsSource(k) == connections[k].from_node_id

\* the current node is the target of the last connection
CurrentNode(k) == connections[k].to_node_id

\* the connection of the last step, then its target node
ReplayResponses(s, steps) ==
    IF ~HasConnectionId(LastStep(steps))
    THEN {Failure("get_session", s, "Internal")}
    ELSE
    LET k == LastStep(steps).connection_id IN
    IF ~connections[k].exists
    THEN {Failure("get_session", s, "NotFound")}
    ELSE LET current == CurrentNode(k) IN
         IF ~nodes[current].exists
         THEN {Failure("get_session", s, "NotFound")}
         ELSE IF IsConclusion(current)
         THEN {Response("get_session", s, "Ok", Some(current), <<>>, TRUE,
                        Some(nodes[current].text))}
         ELSE NodeResponses(s, current)

GetSessionResponses(s) ==
    IF ~sessions[s].exists
    THEN {Failure("get_session", s, "NotFound")}
    ELSE IF ParsedSteps(sessions[s]) = <<>>
    THEN StartResponses(s)
    ELSE ReplayResponses(s, ParsedSteps(sessions[s]))

\* faulty variant: a session found on a conclusion is marked complete
GetSessionMarkingComplete(s) ==
    /\ \E r \in GetSessionResponses(s) :
          IF r.is_conclusion
          THEN sessions' = [sessions EXCEPT ![s].completed_at = Some(now)]
          ELSE UNCHANGED sessions
    /\ UNCHANGED <<nodes, connections, calls, resp, now, adminOps,
                   started, concluded, accepted>>
    /\ UNCHANGED cacheVars
    /\ UNCHANGED rateVars

\* a pure read: the response goes to the client and no row is written
GetSession(s) ==
    /\ \E r \in GetSessionResponses(s) : UNCHANGED vars

\* ------------------------------------------------------------- get_session_history
HistoryResponse(s, kind, completed, steps, final_conclusion) ==
    [op |-> "get_session_history", sid |-> s, kind |-> kind,
     completed |-> completed, steps |-> steps,
     final_conclusion |-> final_conclusion]

HistoryFailure(s, kind) == HistoryResponse(s, kind, FALSE, <<>>, None)

\* serde_json::from_value::<Uuid>(step["question_id"]) and (step["answer_id"])
\* both succeed
HasQuestionAndAnswerId(step) ==
    "question_id" \in DOMAIN step /\ "answer_id" \in DOMAIN step

\* the steps the loop gets through before a step without the two ids
ReadableSteps(steps) ==
    {i \in 1..Len(steps) : \A j \in 1..i : HasQuestionAndAnswerId(steps[j])}

\* the loop over the steps: a step without question_id / answer_id ends it
\* with Internal; the rows of the questions and answers tables are fetched
\* with fetch_one and lie outside this model, so a fetch may also fail
GetSessionHistoryResponses(s) ==
    IF ~sessions[s].exists
    THEN {HistoryFailure(s, "NotFound")}
    ELSE LET steps == ParsedSteps(sessions[s])
             readable == ReadableSteps(steps)
         IN
         (IF readable # {} THEN {HistoryFailure(s, "NotFound")} ELSE {})
         \cup
         (IF Cardinality(readable) < Len(steps)
          THEN {HistoryFailure(s, "Internal")}
          ELSE {HistoryResponse(s, "Ok", sessions[s].completed_at # None,
                                [i \in 1..Len(steps) |->
                                   [question |-> steps[i].question_id,
                                    answer |-> steps[i].answer_id]],
                                sessions[s].final_conclusion)})

\* a pure read
GetSessionHistory(s) ==
    /\ \E r \in GetSessionHistoryResponses(s) : UNCHANGED vars

\* ------------------------------------------------------------- admin handlers
DeletedNode ==
    [exists |-> FALSE, category |-> "", node_type |-> "", text |-> "",
     semantic_id |-> None, is_active |-> FALSE]

DeletedConnection ==
    [exists |-> FALSE, from_node_id |-> 0, to_node_id |-> 0, label |-> "",
     order_index |-> 0, is_active |-> FALSE]

AdminDone(op, kind) ==
    /\ adminOps < MaxEdits
    /\ adminOps' = adminOps + 1
    /\ resp' = Failure(op, 0, kind)
    /\ UNCHANGED <<sessions, calls, now, started, concluded, accepted>>
    /\ UNCHANGED cacheVars
    /\ UNCHANGED rateVars

\* UPDATE nodes SET is_active = false WHERE id = $1
DeleteNode(n) ==
    IF ~nodes[n].exists
    THEN AdminDone("delete_node", "NotFound") /\ UNCHANGED graphVars
    ELSE /\ nodes' = [nodes EXCEPT ![n].is_active = FALSE]
         /\ AdminDone("delete_node", "Ok")
         /\ UNCHANGED connections

\* UPDATE connections SET is_active = false WHERE id = $1
DeleteConnection(k) ==
    IF ~connections[k].exists
    THEN AdminDone("delete_connection", "NotFound") /\ UNCHANGED graphVars
    ELSE /\ connections' = [connections EXCEPT ![k].is_active = FALSE]
         /\ AdminDone("delete_connection", "Ok")
         /\ UNCHANGED nodes

\* the fields of UpdateNode that the session engine reads
UpdateNodeRequests ==
    {[node_type |-> Some(t), is_active |-> None] : t \in {"question", "conclusion"}}
    \cup {[node_type |-> None, is_active |-> Some(b)] : b \in BOOLEAN}

UpdatedNode(node, req) ==
    [node EXCEPT
       !.node_type = IF req.node_type = None THEN @ ELSE req.node_type[1],
       !.is_active = IF req.is_active = None THEN @ ELSE req.is_active[1]]

UpdateNode(n, req) ==
    IF ~nodes[n].exists
    THEN AdminDone("update_node", "NotFound") /\ UNCHANGED graphVars
    ELSE /\ nodes' = [nodes EXCEPT ![n] = UpdatedNode(@, req)]
         /\ AdminDone("update_node", "Ok")
         /\ UNCHANGED connections

UpdateConnectionRequests ==
    {[to_node_id |-> Some(n), order_index |-> None, is_active |-> None] :
        n \in NodeIds}
    \cup {[to_node_id |-> None, order_index |-> Some(i), is_active |-> None] :
            i \in OrderIndexes}
    \cup {[to_node_id |-> None, order_index |-> None, is_active |-> Some(b)] :
            b \in BOOLEAN}

UpdatedConnection(conn, req) ==
    [conn EXCEPT
       !.to_node_id = IF req.to_node_id = None THEN @ ELSE req.to_node_id[1],
       !.order_index = IF req.order_index = None THEN @ ELSE req.order_index[1],
       !.is_active = IF req.is_active = None THEN @ ELSE req.is_active[1]]

UpdateConnection(k, req) ==
    IF ~connections[k].exists
    THEN AdminDone("update_connection", "NotFound") /\ UNCHANGED graphVars
    ELSE IF req.to_node_id # None /\ ~nodes[req.to_node_id[1]].exists
    THEN AdminDone("update_connection", "Validation") /\ UNCHANGED graphVars
    ELSE /\ connections' = [connections EXCEPT ![k] = UpdatedConnection(@, req)]
         /\ AdminDone("update_connection", "Ok")
         /\ UNCHANGED nodes

NodesOfCategory(category) ==
    {n \in NodeIds : nodes[n].exists /\ nodes[n].category = category}

\* WHERE category = $1 ORDER BY created_at ASC LIMIT 1 (ids rise with created_at)
RootNode(category) ==
    CHOOSE n \in NodesOfCategory(category) :
        \A m \in NodesOfCategory(category) : n <= m

\* WHERE n.category = $1 AND n.node_type = 'Question'
\*   AND NOT EXISTS (SELECT 1 FROM connections c WHERE c.from_node_id = n.id)
IncompleteNodes(category) ==
    {n \in NodesOfCategory(category) :
        /\ nodes[n].node_type = "Question"
        /\ ~\E k \in ConnIds : connections[k].exists
                               /\ connections[k].from_node_id = n}

\* UPDATE nodes SET is_active = $1 WHERE category = $2
WithCategoryActive(category, status) ==
    [n \in NodeIds |->
        IF nodes[n].exists /\ nodes[n].category = category
        THEN [nodes[n] EXCEPT !.is_active = status] ELSE nodes[n]]

\* UPDATE connections SET is_active = $1 WHERE to_node_id = $2
WithIncomingActive(root, status) ==
    [k \in ConnIds |->
        IF connections[k].exists /\ connections[k].to_node_id = root
        THEN [connections[k] EXCEPT !.is_active = status] ELSE connections[k]]

\* faulty variant: the gate rejects every activation, forced or not
ActivationBlockedAlways(category, new_status, force) == new_status

\* if new_status && !query.force { ... if !incomplete_nodes.is_empty() { Err } }
ActivationBlocked(category, new_status, force) ==
    new_status /\ ~force /\ IncompleteNodes(category) # {}

ToggleIssue(category, force) ==
    IF NodesOfCategory(category) = {}
    THEN AdminDone("toggle_issue", "NotFound") /\ UNCHANGED graphVars
    ELSE LET root == RootNode(category)
             new_status == ~nodes[root].is_active
         IN
         IF ActivationBlocked(category, new_status, force)
         THEN AdminDone("toggle_issue", "Validation") /\ UNCHANGED graphVars
         ELSE /\ nodes' = WithCategoryActive(category, new_status)
              /\ connections' = WithIncomingActive(root, new_status)
              /\ AdminDone("toggle_issue", "Ok")

\* update_issue with is_active: only the nodes of the category are updated
UpdateIssue(category, is_active) ==
    IF NodesOfCategory(category) = {}
    THEN AdminDone("update_issue", "NotFound") /\ UNCHANGED graphVars
    ELSE /\ nodes' = WithCategoryActive(category, is_active)
         /\ AdminDone("update_issue", "Ok")
         /\ UNCHANGED connections

\* DELETE FROM connections WHERE from_node_id IN (nodes of the category);
\* DELETE FROM nodes WHERE category = $1.  Whether the connections INTO the
\* deleted nodes go with them depends on the schema's foreign keys, which
\* the handler's comment leaves open: cascade is either.
DeleteIssue(category, cascade) ==
    IF NodesOfCategory(category) = {}
    THEN AdminDone("delete_issue", "NotFound") /\ UNCHANGED graphVars
    ELSE /\ connections' =
              [k \in ConnIds |->
                 IF /\ connections[k].exists
                    /\ \/ connections[k].from_node_id \in NodesOfCategory(category)
                       \/ cascade /\ connections[k].to_node_id
                                        \in NodesOfCategory(category)
                 THEN DeletedConnection ELSE connections[k]]
         /\ nodes' = [n \in NodeIds |->
                        IF n \in NodesOfCategory(category)
                        THEN DeletedNode ELSE nodes[n]]
         /\ AdminDone("delete_issue", "Ok")

\* ------------------------------------------------------------- Cache
\* faulty variant: the expiry test lets the instant of expiry through
UnexpiredInclusive(entry) == clock <= entry.expires_at

\* Instant::now() < entry.expires_at
Unexpired(entry) == clock < entry.expires_at

\* Cache::get: the value of an entry that is present and not expired
CacheGetResult(key) ==
    IF store[key].present /\ Unexpired(store[key])
    THEN Some(store[key].value) ELSE None

\* faulty variant: a full cache evicts nothing
NoEviction(st) == {None}

\* if store.len() >= max_size { store.keys().next() ... remove }: the first
\* key of the HashMap's iteration order is any stored key; None: no removal
EvictionChoices(st) ==
    IF Cardinality(StoredKeys(st)) >= CacheMaxSize /\ StoredKeys(st) # {}
    THEN {Some(k) : k \in StoredKeys(st)}
    ELSE {None}

\* faulty variant: nothing is removed
WithoutNothing(st, key) == st

\* store.remove(key)
Without(st, key) == [st EXCEPT ![key] = NoEntry]

\* faulty variant: the entry expires at the instant it is stored
InsertedExpired(st, key, value) ==
    [st EXCEPT ![key] = CacheEntry(value, clock)]

\* store.insert(key, CacheEntry { value, expires_at: Instant::now() + ttl })
Inserted(st, key, value) ==
    [st EXCEPT ![key] = CacheEntry(value, clock + CacheTtl)]

\* faulty variant: cleanup keeps the entries that expire at this instant
RetainedInclusive(st) ==
    [k \in CacheKeys |->
        IF st[k].present /\ clock <= st[k].expires_at THEN st[k] ELSE NoEntry]

\* store.retain(|_, entry| now < entry.expires_at)
Retained(st) ==
    [k \in CacheKeys |-> IF st[k].present /\ Unexpired(st[k]) THEN st[k] ELSE NoEntry]

\* faulty variant: a writer waits for other writers only
NoWriter(c) == \A d \in CacheCallIds : cacheCalls[d].pc # "writing"

\* store.read().await is granted while no writer holds the lock
ReadLockFree(c) == \A d \in CacheCallIds : cacheCalls[d].pc # "writing"

\* store.write().await is granted while nobody holds the lock
WriteLockFree(c) == \A d \in CacheCallIds : cacheCalls[d].pc = "idle"

\* a new operation takes the lowest idle slot
FreeCacheCall(c) ==
    /\ cacheCalls[c].pc = "idle"
    /\ \A d \in CacheCallIds : d < c => cacheCalls[d].pc # "idle"

CacheTick ==
    /\ clock < MaxClock
    /\ clock' = clock + 1
    /\ UNCHANGED <<store, cacheCalls, got, written>>
    /\ UNCHANGED engineVars
    /\ UNCHANGED rateVars

\* get / stats: let store = self.store.read().await
CacheAcquireRead(c, op, key) ==
    /\ FreeCacheCall(c)
    /\ ReadLockFree(c)
    /\ cacheCalls' = [cacheCalls EXCEPT ![c] =
                        [pc |-> "reading", op |-> op, key |-> key, value |-> ""]]
    /\ UNCHANGED <<store, clock, got, written>>
    /\ UNCHANGED engineVars
    /\ UNCHANGED rateVars

\* set / invalidate / clear / cleanup: let mut store = self.store.write().await
CacheAcquireWrite(c, op, key, value) ==
    /\ FreeCacheCall(c)
    /\ WriteLockFree(c)
    /\ cacheCalls' = [cacheCalls EXCEPT ![c] =
                        [pc |-> "writing", op |-> op, key |-> key, value |-> value]]
    /\ UNCHANGED <<store, clock, got, written>>
    /\ UNCHANGED engineVars
    /\ UNCHANGED rateVars

\* the guard is dropped when the function returns
CacheRelease(c) == cacheCalls' = [cacheCalls EXCEPT ![c] = IdleCacheCall]

CacheGet(c) ==
    /\ cacheCalls[c].pc = "reading" /\ cacheCalls[c].op = "get"
    /\ got' = CacheResult("get", cacheCalls[c].key,
                           CacheGetResult(cacheCalls[c].key), 0, 0)
    /\ CacheRelease(c)
    /\ UNCHANGED <<store, clock, written>>
    /\ UNCHANGED engineVars
    /\ UNCHANGED rateVars

CacheStats(c) ==
    /\ cacheCalls[c].pc = "reading" /\ cacheCalls[c].op = "stats"
    /\ got' = CacheResult("stats", "", None, Cardinality(StoredKeys(store)),
                           Cardinality({k \in StoredKeys(store) : Unexpired(store[k])}))
    /\ CacheRelease(c)
    /\ UNCHANGED <<store, clock, written>>
    /\ UNCHANGED engineVars
    /\ UNCHANGED rateVars

\* the body of Cache::set: the eviction at capacity, then the insert
SetEffect(key, value) ==
    \E victim \in EvictionChoices(store) :
        /\ store' = Inserted(IF victim = None THEN store
                              ELSE Without(store, victim[1]), key, value)
        /\ written' = [k \in CacheKeys |->
                          IF k = key
                          THEN [kind |-> "set", value |-> value, at |-> clock]
                          ELSE IF victim = Some(k) THEN Evicted(written[k])
                          ELSE written[k]]

CacheSet(c) ==
    LET key == cacheCalls[c].key
        value == cacheCalls[c].value
    IN
    /\ cacheCalls[c].pc = "writing" /\ cacheCalls[c].op = "set"
    /\ SetEffect(key, value)
    /\ CacheRelease(c)
    /\ UNCHANGED <<clock, got>>
    /\ UNCHANGED engineVars
    /\ UNCHANGED rateVars

CacheInvalidate(c) ==
    /\ cacheCalls[c].pc = "writing" /\ cacheCalls[c].op = "invalidate"
    /\ store' = Without(store, cacheCalls[c].key)
    /\ written' = [written EXCEPT ![cacheCalls[c].key] = Invalidated(@)]
    /\ CacheRelease(c)
    /\ UNCHANGED <<clock, got>>
    /\ UNCHANGED engineVars
    /\ UNCHANGED rateVars

CacheClear(c) ==
    /\ cacheCalls[c].pc = "writing" /\ cacheCalls[c].op = "clear"
    /\ store' = EmptyStore
    /\ written' = [k \in CacheKeys |->
                      IF written[k].kind = "none" THEN written[k]
                      ELSE Removed("clear")]
    /\ CacheRelease(c)
    /\ UNCHANGED <<clock, got>>
    /\ UNCHANGED engineVars
    /\ UNCHANGED rateVars

CacheCleanup(c) ==
    /\ cacheCalls[c].pc = "writing" /\ cacheCalls[c].op = "cleanup"
    /\ store' = Retained(store)
    /\ CacheRelease(c)
    /\ UNCHANGED <<clock, got, written>>
    /\ UNCHANGED engineVars
    /\ UNCHANGED rateVars

\* the cache is explored with at most MaxCacheCalls operations in flight
InFlightBound(c) == c <= MaxCacheCalls

NextCache ==
    \/ CacheTick
    \/ \E c \in CacheCallIds, key \in CacheKeys :
          InFlightBound(c) /\ CacheAcquireRead(c, "get", key)
    \/ \E c \in CacheCallIds : InFlightBound(c) /\ CacheAcquireRead(c, "stats", "")
    \/ \E c \in CacheCallIds, key \in CacheKeys, value \in CacheValues :
          InFlightBound(c) /\ CacheAcquireWrite(c, "set", key, value)
    \/ \E c \in CacheCallIds, key \in CacheKeys :
          InFlightBound(c) /\ CacheAcquireWrite(c, "invalidate", key, "")
    \/ \E c \in CacheCallIds, op \in {"clear", "cleanup"} :
          InFlightBound(c) /\ CacheAcquireWrite(c, op, "", "")
    \/ \E c \in CacheCallIds : CacheGet(c)
    \/ \E c \in CacheCallIds : CacheStats(c)
    \/ \E c \in CacheCallIds : CacheSet(c)
    \/ \E c \in CacheCallIds : CacheInvalidate(c)
    \/ \E c \in CacheCallIds : CacheClear(c)
    \/ \E c \in CacheCallIds : CacheCleanup(c)

SpecCache == Init /\ [][NextCache]_vars

\* ------------------------------------------------------------- waiting for the lock
\* tokio::sync::RwLock hands the lock out fairly: a task that cannot have it
\* at once joins a first-in first-out queue, and while the queue is not empty
\* every new read() and write() joins it behind the tasks already waiting.
\* A waiting call carries its place in the queue as ticket (1 is the head).
Waiters == {c \in CacheCallIds : cacheCalls[c].pc = "waiting"}

\* faulty variant: a new call never looks at the queue
NoWaitersUnchecked == TRUE

NoWaiters == Waiters = {}

\* get and stats take store.read(), the other four store.write()
IsReadOp(op) == op \in {"get", "stats"}

NobodyHolds ==
    \A d \in CacheCallIds : cacheCalls[d].pc \notin {"reading", "writing"}

LockAvailable(c, op) == IF IsReadOp(op) THEN ReadLockFree(c) ELSE NobodyHolds

\* the calls that the exploration of waiting issues
LiveRequests ==
    {[op |-> "get", key |-> "graph_root", value |-> ""],
     [op |-> "stats", key |-> "", value |-> ""],
     [op |-> "set", key |-> "graph_root", value |-> "v1"],
     [op |-> "invalidate", key |-> "graph_root", value |-> ""],
     [op |-> "clear", key |-> "", value |-> ""],
     [op |-> "cleanup", key |-> "", value |-> ""]}

\* the call joins the back of the queue
CacheEnqueue(c, req) ==
    /\ FreeCacheCall(c)
    /\ cacheCalls' = [cacheCalls EXCEPT ![c] =
                        [pc |-> "waiting", op |-> req.op, key |-> req.key,
                         value |-> req.value,
                         ticket |-> Cardinality(Waiters) + 1]]
    /\ UNCHANGED <<store, clock, got, written>>
    /\ UNCHANGED engineVars
    /\ UNCHANGED rateVars

\* self.store.read().await / self.store.write().await: the lock is taken at
\* once when it is free and nobody waits, and waited for otherwise
CacheRequest(c, req) ==
    IF NoWaiters /\ LockAvailable(c, req.op)
    THEN IF IsReadOp(req.op)
         THEN CacheAcquireRead(c, req.op, req.key)
         ELSE CacheAcquireWrite(c, req.op, req.key, req.value)
    ELSE CacheEnqueue(c, req)

\* the head of the queue gets the lock once the holders in its way are gone
CacheGrant(c) ==
    /\ cacheCalls[c].pc = "waiting"
    /\ cacheCalls[c].ticket = 1
    /\ LockAvailable(c, cacheCalls[c].op)
    /\ cacheCalls' =
          [d \in CacheCallIds |->
             IF d = c
             THEN [pc |-> IF IsReadOp(cacheCalls[c].op) THEN "reading" ELSE "writing",
                   op |-> cacheCalls[c].op, key |-> cacheCalls[c].key,
                   value |-> cacheCalls[c].value]
             ELSE IF cacheCalls[d].pc = "waiting"
             THEN [cacheCalls[d] EXCEPT !.ticket = @ - 1]
             ELSE cacheCalls[d]]
    /\ UNCHANGED <<store, clock, got, written>>
    /\ UNCHANGED engineVars
    /\ UNCHANGED rateVars

\* the body of the operation that holds the lock runs to its return
CacheComplete(c) ==
    \/ CacheGet(c)
    \/ CacheStats(c)
    \/ CacheSet(c)
    \/ CacheInvalidate(c)
    \/ CacheClear(c)
    \/ CacheCleanup(c)

NextLive ==
    \/ \E c \in CacheCallIds, req \in LiveRequests : CacheRequest(c, req)
    \/ \E c \in CacheCallIds : CacheGrant(c)
    \/ \E c \in CacheCallIds : CacheComplete(c)

\* the runtime polls every task that can run: a call that can take the lock,
\* or that holds it, goes on
SpecLive ==
    /\ Init
    /\ [][NextLive]_vars
    /\ \A c \in CacheCallIds : WF_vars(CacheGrant(c)) /\ WF_vars(CacheComplete(c))

\* ------------------------------------------------------------- graph editor
AdminCategories == {"root", "brush", "ghost"}
IssueNames == {"Ghost"}

\* format!("graph_{}", category)
GraphCacheKey(category) == "graph_" \o category

\* SELECT ... FROM nodes WHERE category = $1 AND is_active = true
ActiveNodesOfCategory(category) ==
    {n \in NodeIds : nodes[n].exists /\ nodes[n].category = category
                     /\ nodes[n].is_active}

\* SELECT ... FROM connections WHERE from_node_id = ANY($1) AND is_active = true
ActiveConnectionsFrom(S) ==
    {k \in ConnIds : connections[k].exists /\ connections[k].is_active
                     /\ connections[k].from_node_id \in S}

\* IssueGraph { category, nodes, connections }: the rows, each with its id
IssueGraph(category) ==
    [category |-> category,
     nodes |-> {<<n, nodes[n]>> : n \in ActiveNodesOfCategory(category)},
     connections |-> {<<k, connections[k]>> :
                        k \in ActiveConnectionsFrom(ActiveNodesOfCategory(category))}]

\* serde writes NodeType as "Question" / "Conclusion"; sqlx stores it lowercase
SerializedNodeType(t) == IF t = "question" THEN "Question" ELSE "Conclusion"

DeserializedNodeType(t) == IF t = "Question" THEN "question" ELSE "conclusion"

\* serde_json::to_value(&result)
ToValue(graph) ==
    [graph EXCEPT !.nodes =
        {<<r[1], [r[2] EXCEPT !.node_type = SerializedNodeType(@)]>> : r \in graph.nodes}]

\* serde_json::from_value(cached)
FromValue(value) ==
    [value EXCEPT !.nodes =
        {<<r[1], [r[2] EXCEPT !.node_type = DeserializedNodeType(@)]>> : r \in value.nodes}]

GraphResponse(category, kind, graph) ==
    [op |-> "get_issue_graph", kind |-> kind, category |-> category, graph |-> graph]

NoGraph == [category |-> "", nodes |-> {}, connections |-> {}]

\* get_issue_graph: the cached snapshot if the cache has one, else the rows
\* of the category, stored in the cache before they are returned
GetIssueGraph(category) ==
    LET cached == CacheGetResult(GraphCacheKey(category)) IN
    /\ IF cached # None
       THEN /\ resp' = GraphResponse(category, "Ok", FromValue(cached[1]))
            /\ UNCHANGED <<store, written>>
       ELSE IF ActiveNodesOfCategory(category) = {}
       THEN /\ resp' = GraphResponse(category, "NotFound", NoGraph)
            /\ UNCHANGED <<store, written>>
       ELSE /\ SetEffect(GraphCacheKey(category), ToValue(IssueGraph(category)))
            /\ resp' = GraphResponse(category, "Ok", IssueGraph(category))
    /\ UNCHANGED <<nodes, connections, sessions, calls, now, adminOps,
                   started, concluded, accepted>>
    /\ UNCHANGED <<clock, cacheCalls, got>>
    /\ UNCHANGED rateVars

\* Uuid::new_v4(): an id no row has or had; ids rise with created_at
FreshNodeIds ==
    {n \in NodeIds :
        /\ \A m \in NodeIds : m >= n => ~nodes[m].exists
        /\ \A m \in NodeIds : m < n => nodes[m].exists
        /\ \A k \in ConnIds : connections[k].exists =>
              connections[k].from_node_id # n /\ connections[k].to_node_id # n}

FreshConnIds ==
    {k \in ConnIds :
        /\ \A j \in ConnIds : j >= k => ~connections[j].exists
        /\ \A j \in ConnIds : j < k => connections[j].exists}

\* FROM nodes n WHERE n.semantic_id = 'start'
StartRows ==
    {m \in NodeIds : nodes[m].exists /\ nodes[m].semantic_id = Some("start")}

\* (SELECT COUNT(*) FROM connections WHERE from_node_id = n.id)
OutgoingCount(m) ==
    Cardinality({k \in ConnIds : connections[k].exists
                                 /\ connections[k].from_node_id = m})

\* INSERT INTO nodes (..., node_type, ..., semantic_id, ..., is_active)
\* VALUES (..., 'question', ..., '<category>_start', ..., false)
NewIssueRoot(category) ==
    [Node(category, "question", "New issue?", Some(StartSemanticId(category)))
        EXCEPT !.is_active = FALSE]

\* create_issue: the root node of the category and the edge into it from
\* every node whose semantic_id is 'start'
CreateIssue(category, name) ==
    IF NodesOfCategory(category) # {}
    THEN AdminDone("create_issue", "Validation") /\ UNCHANGED graphVars
    ELSE \E n \in FreshNodeIds :
           /\ nodes' = [nodes EXCEPT ![n] = NewIssueRoot(category)]
           /\ IF StartRows = {}
              THEN UNCHANGED connections
              ELSE \E k \in FreshConnIds, m \in StartRows :
                     /\ StartRows = {m}
                     /\ connections' =
                          [connections EXCEPT ![k] =
                              Connection(m, n, name, OutgoingCount(m))]
           /\ AdminDone("create_issue", "Ok")

\* a graph the editor can have built: the start node, one category with a
\* question that has no outgoing connection, and room for one more issue
EditorNodes ==
    <<Node("root", "question", "Select issue", Some("start")),
      Node("brush", "question", "Is brush worn?", Some("brush_start")),
      Node("brush", "question", "Check motor?", None),
      DeletedNode>>

EditorConnections ==
    <<Connection(1, 2, "Brush", 0),
      Connection(2, 3, "No", 0),
      DeletedConnection>>

InitEditor ==
    /\ nodes = EditorNodes
    /\ connections = EditorConnections
    /\ sessions = [s \in SessionIds |-> NoSession]
    /\ calls = [c \in CallIds |-> IdleCall]
    /\ resp = NoResponse
    /\ now = 0
    /\ adminOps = 0
    /\ started = [s \in SessionIds |-> None]
    /\ concluded = [s \in SessionIds |-> FALSE]
    /\ accepted = [s \in SessionIds |-> 0]
    /\ CacheInit
    /\ RateInit

NextEditor ==
    \/ CacheTick
    \/ \E category \in AdminCategories : GetIssueGraph(category)
    \/ \E n \in NodeIds : DeleteNode(n)
    \/ \E k \in ConnIds : DeleteConnection(k)
    \/ \E n \in NodeIds, req \in UpdateNodeRequests : UpdateNode(n, req)
    \/ \E k \in ConnIds, req \in UpdateConnectionRequests : UpdateConnection(k, req)
    \/ \E category \in AdminCategories, force \in BOOLEAN :
          ToggleIssue(category, force)
    \/ \E category \in AdminCategories, is_active \in BOOLEAN :
          UpdateIssue(category, is_active)
    \/ \E category \in AdminCategories, cascade \in BOOLEAN :
          DeleteIssue(category, cascade)
    \/ \E category \in AdminCategories, name \in IssueNames :
          CreateIssue(category, name)

SpecEditor == InitEditor /\ [][NextEditor]_vars

\* ------------------------------------------------------------- category toggles
\* the editor's graph after DELETE /nodes/:id on the nodes of S and
\* DELETE /connections/:id on the connections of K
SoftDeleted(S, K) ==
    /\ nodes = [n \in NodeIds |->
                  IF n \in S THEN [EditorNodes[n] EXCEPT !.is_active = FALSE]
                  ELSE EditorNodes[n]]
    /\ connections = [k \in ConnIds |->
                        IF k \in K
                        THEN [EditorConnections[k] EXCEPT !.is_active = FALSE]
                        ELSE EditorConnections[k]]

InitToggle ==
    /\ CacheInit
    /\ RateInit
    /\ \E S \in SUBSET {n \in NodeIds : EditorNodes[n].exists},
          K \in SUBSET {k \in ConnIds : EditorConnections[k].exists} :
          SoftDeleted(S, K)
    /\ sessions = [s \in SessionIds |-> NoSession]
    /\ calls = [c \in CallIds |-> IdleCall]
    /\ resp = NoResponse
    /\ now = 0
    /\ adminOps = 0
    /\ started = [s \in SessionIds |-> None]
    /\ concluded = [s \in SessionIds |-> FALSE]
    /\ accepted = [s \in SessionIds |-> 0]

NextToggle ==
    \E category \in AdminCategories, force \in BOOLEAN : ToggleIssue(category, force)

SpecToggle == InitToggle /\ [][NextToggle]_vars

\* ------------------------------------------------------------- RateLimiter
\* now.duration_since(entry.window_start) > self.window_duration
WindowExpired(entry, t) == t - entry.window_start > WindowDuration

\* entries.entry(ip).or_insert(RateLimitEntry { count: 0, window_start: now }),
\* then the reset of an expired window
OpenWindow(entry, t) ==
    LET found == IF entry.present THEN entry ELSE RateLimitEntry(0, t) IN
    IF WindowExpired(found, t) THEN RateLimitEntry(0, t) ELSE found

\* faulty variant: one request more than max_requests passes
LimitExceededLate(entry) == entry.count > MaxRequests

\* entry.count >= self.max_requests
LimitExceeded(entry) == entry.count >= MaxRequests

\* the entry that check_rate_limit leaves behind
AfterCheck(entry, t) ==
    LET window == OpenWindow(entry, t) IN
    IF LimitExceeded(window) THEN window
    ELSE [window EXCEPT !.count = @ + 1]

\* Ok(()) or Err(..)
CheckResult(entry, t) ==
    IF LimitExceeded(OpenWindow(entry, t)) THEN "Err" ELSE "Ok"

\* faulty variant: cleanup drops every entry
RetainedEntryNone(entry, t) == NoRateEntry

\* entries.retain(|_, entry| now.duration_since(entry.window_start) <= window_duration)
RetainedEntry(entry, t) ==
    IF entry.present /\ ~WindowExpired(entry, t) THEN entry ELSE NoRateEntry

RateTick ==
    /\ clock < MaxRateTime
    /\ clock' = clock + 1
    /\ UNCHANGED <<store, cacheCalls, got, written>>
    /\ UNCHANGED engineVars
    /\ UNCHANGED rateVars

\* check_rate_limit runs under the Mutex from its first line to its return
CheckRateLimit(ip) ==
    /\ entries' = [entries EXCEPT ![ip] = AfterCheck(@, clock)]
    /\ rateResp' = RateResult(ip, CheckResult(entries[ip], clock))
    /\ granted' = IF CheckResult(entries[ip], clock) = "Ok"
                  THEN [granted EXCEPT ![ip][clock] = @ + 1]
                  ELSE granted
    /\ UNCHANGED cacheVars
    /\ UNCHANGED engineVars

RateCleanup ==
    /\ entries' = [ip \in Ips |-> RetainedEntry(entries[ip], clock)]
    /\ UNCHANGED <<rateResp, granted>>
    /\ UNCHANGED cacheVars
    /\ UNCHANGED engineVars

NextRate ==
    \/ RateTick
    \/ \E ip \in Ips : CheckRateLimit(ip)
    \/ RateCleanup

SpecRate == Init /\ [][NextRate]_vars

\* ------------------------------------------------------------- the service
\* the session engine is explored against at most MaxAdminOps graph edits
OneEdit == adminOps < MaxAdminOps

Next ==
    \/ Tick
    \/ \E category \in {None} \cup {Some(c) : c \in RequestCategories} :
          StartSession(category)
    \/ \E c \in CallIds, s \in SessionIds, k \in ConnIds : SubmitLoad(c, s, k)
    \/ \E c \in CallIds : SubmitStore(c)
    \/ \E s \in SessionIds : GetSession(s)
    \/ \E s \in SessionIds : GetSessionHistory(s)
    \/ \E n \in NodeIds : OneEdit /\ DeleteNode(n)
    \/ \E k \in ConnIds : OneEdit /\ DeleteConnection(k)
    \/ \E n \in NodeIds, req \in UpdateNodeRequests : OneEdit /\ UpdateNode(n, req)
    \/ \E k \in ConnIds, req \in UpdateConnectionRequests :
          OneEdit /\ UpdateConnection(k, req)
    \/ \E category \in Categories, force \in BOOLEAN :
          OneEdit /\ ToggleIssue(category, force)
    \/ \E category \in Categories, is_active \in BOOLEAN :
          OneEdit /\ UpdateIssue(category, is_active)
    \/ \E category \in Categories, cascade \in BOOLEAN :
          OneEdit /\ DeleteIssue(category, cascade)

Spec == Init /\ [][Next]_vars

\* ------------------------------------------------------------- serial clients
\* a client that answers one question at a time: no submit_answer starts on a
\* session while another one is in flight on it
NoCallInFlight(s) ==
    \A d \in CallIds : calls[d].pc = "loaded" => calls[d].sid # s

SubmitLoadSerial(c, s, k) == NoCallInFlight(s) /\ SubmitLoad(c, s, k)

NextSerial ==
    \/ Tick
    \/ \E category \in {None} \cup {Some(c) : c \in RequestCategories} :
          StartSession(category)
    \/ \E c \in CallIds, s \in SessionIds, k \in ConnIds :
          SubmitLoadSerial(c, s, k)
    \/ \E c \in CallIds : SubmitStore(c)
    \/ \E s \in SessionIds : GetSession(s)
    \/ \E s \in SessionIds : GetSessionHistory(s)
    \/ \E n \in NodeIds : OneEdit /\ DeleteNode(n)
    \/ \E k \in ConnIds : OneEdit /\ DeleteConnection(k)
    \/ \E n \in NodeIds, req \in UpdateNodeRequests : OneEdit /\ UpdateNode(n, req)
    \/ \E k \in ConnIds, req \in UpdateConnectionRequests :
          OneEdit /\ UpdateConnection(k, req)
    \/ \E category \in Categories, force \in BOOLEAN :
          OneEdit /\ ToggleIssue(category, force)
    \/ \E category \in Categories, is_active \in BOOLEAN :
          OneEdit /\ UpdateIssue(category, is_active)
    \/ \E category \in Categories, cascade \in BOOLEAN :
          OneEdit /\ DeleteIssue(category, cascade)

SpecSerial == Init /\ [][NextSerial]_vars

\* ------------------------------------------------------------- stored payloads
\* the values the steps column of a stored session may hold when a handler
\* reads it: arrays written by submit_answer, an array whose step was written
\* for the questions / answers tables (no connection_id), and a JSON value
\* that is not an array
LegacyStep == [question_id |-> 1, answer_id |-> 1, timestamp |-> 0]

StoredPayloads ==
    {[steps |-> <<>>, steps_is_array |-> TRUE],
     [steps |-> <<[node_id |-> 1, node_text |-> "Select issue",
                   connection_id |-> 1, connection_label |-> "Brush",
                   timestamp |-> 0]>>, steps_is_array |-> TRUE],
     [steps |-> <<LegacyStep>>, steps_is_array |-> TRUE],
     [steps |-> <<>>, steps_is_array |-> FALSE]}

InitPayload ==
    /\ nodes = SeedNodes
    /\ connections = SeedConnections
    /\ \E payload \in StoredPayloads :
          sessions = [s \in SessionIds |->
                        IF s = 1
                        THEN [NewSession EXCEPT
                                !.steps = payload.steps,
                                !.steps_is_array = payload.steps_is_array]
                        ELSE NoSession]
    /\ calls = [c \in CallIds |-> IdleCall]
    /\ resp = NoResponse
    /\ now = 0
    /\ adminOps = 0
    /\ started = [s \in SessionIds |-> IF s = 1 THEN Some(1) ELSE None]
    /\ concluded = [s \in SessionIds |-> FALSE]
    /\ accepted = [s \in SessionIds |-> 0]
    /\ CacheInit
    /\ RateInit

NextPayload ==
    \/ \E c \in CallIds, s \in SessionIds, k \in ConnIds : SubmitLoad(c, s, k)
    \/ \E c \in CallIds : SubmitStore(c)
    \/ \E s \in SessionIds : GetSession(s)
    \/ \E s \in SessionIds : GetSessionHistory(s)

SpecPayload == InitPayload /\ [][NextPayload]_vars

\* ------------------------------------------------------------- flagged sessions
\* the sessions table holding a row that the sweep outside the engine has
\* flagged abandoned = true, next to the row that start_session creates
TwinIds == {1, 2}

AbandonedSession == [NewSession EXCEPT !.abandoned = TRUE]

InitAbandoned ==
    /\ nodes = SeedNodes
    /\ connections = SeedConnections
    /\ sessions = [s \in TwinIds |-> IF s = 1 THEN NoSession ELSE AbandonedSession]
    /\ calls = [c \in CallIds |-> IdleCall]
    /\ resp = NoResponse
    /\ now = 0
    /\ adminOps = 0
    /\ started = [s \in TwinIds |-> IF s = 1 THEN None ELSE Some(1)]
    /\ concluded = [s \in TwinIds |-> FALSE]
    /\ accepted = [s \in TwinIds |-> 0]
    /\ CacheInit
    /\ RateInit

NextAbandoned ==
    \/ StartSession(None)
    \/ \E c \in CallIds, s \in TwinIds, k \in ConnIds :
          SubmitLoadSerial(c, s, k)
    \/ \E c \in CallIds : SubmitStore(c)
    \/ \E s \in TwinIds : GetSession(s)
    \/ \E s \in TwinIds : GetSessionHistory(s)
    \/ \E k \in ConnIds : OneEdit /\ DeleteConnection(k)

SpecAbandoned == InitAbandoned /\ [][NextAbandoned]_vars

\* ============================================================= properties
NothingDeleted ==
    /\ \A n \in NodeIds : nodes[n].exists
    /\ \A k \in ConnIds : connections[k].exists

(* C1: once a submit_answer on a session has returned is_conclusion = true,
   every submit_answer that arrives later for that session is answered
   BadRequest, whatever connection id it carries, and changes nothing. *)
C1_TerminalInvariant ==
    [][\A c \in CallIds, s \in SessionIds, k \in ConnIds :
          (concluded[s] /\ SubmitLoad(c, s, k))
             => /\ resp' = Failure("submit_answer", s, "BadRequest")
                /\ calls' = calls
                /\ sessions' = sessions]_vars

C1_Witness ==
    \E s \in SessionIds :
        concluded[s] /\ resp = Failure("submit_answer", s, "BadRequest")

(* C2: for a session with n >= 1 persisted steps, every successful get_session
   returns the to_node of the connection recorded in the last step, with
   is_conclusion = true exactly when that node is a conclusion; it succeeds
   whenever no row of the graph was hard-deleted. *)
C2_ReplayCorrectness ==
    \A s \in SessionIds :
        (sessions[s].exists /\ Len(sessions[s].steps) >= 1) =>
            LET sn == sessions[s].steps[Len(sessions[s].steps)]
                k == sn.connection_id
            IN
            \A r \in GetSessionResponses(s) :
                /\ r.kind \in {"Ok", "NotFound"}
                /\ NothingDeleted => r.kind = "Ok"
                /\ r.kind = "Ok" =>
                      /\ connections[k].exists
                      /\ r.node = Some(connections[k].to_node_id)
                      /\ r.is_conclusion =
                            (nodes[connections[k].to_node_id].node_type
                               = "conclusion")

C2_Witness ==
    \E s \in SessionIds :
        /\ Len(sessions[s].steps) = 2
        /\ sessions[s].steps[1].connection_id # sessions[s].steps[2].connection_id
        /\ \E r \in GetSessionResponses(s) :
              r.kind = "Ok" /\ ~r.is_conclusion /\ Len(r.options) = 2

(* C3: for a session with zero steps, get_session returns the start node that
   start_session resolved for that session. *)
C3_StartNodeReplay ==
    \A s \in SessionIds :
        (sessions[s].exists /\ sessions[s].steps = <<>>) =>
            \A r \in GetSessionResponses(s) :
                r.kind = "Ok" => r.node = started[s]

\* the node a session is on, derived from its persisted steps
DerivedNode(s) ==
    IF sessions[s].steps = <<>> THEN started[s]
    ELSE LET k == sessions[s].steps[Len(sessions[s].steps)].connection_id IN
         IF connections[k].exists THEN Some(connections[k].to_node_id) ELSE None

(* C4: submit_answer accepts a connection only when its from_node is the
   session's currently-derived node; any other connection id is rejected with
   BadRequest and the session is left unchanged. *)
C4_EdgeBelongsToCurrentNode ==
    [][\A c \in CallIds :
          LET s == calls[c].sid
              k == calls[c].conn
          IN
          /\ (SubmitStore(c) /\ accepted'[s] # accepted[s])
                => Some(connections[k].from_node_id) = DerivedNode(s)
          /\ (/\ SubmitStore(c)
              /\ ActiveConnectionFound(k)
              /\ Some(connections[k].from_node_id) # DerivedNode(s))
                => /\ resp' = Failure("submit_answer", s, "BadRequest")
                   /\ sessions' = sessions]_vars

(* C5: under any interleaving of submit_answer calls, once a session's
   completed_at is set, its steps, final_conclusion and completed_at never
   change again. *)
C5_FrozenAfterCompletion ==
    [][\A s \in SessionIds :
          sessions[s].completed_at # None =>
             /\ sessions'[s].steps = sessions[s].steps
             /\ sessions'[s].final_conclusion = sessions[s].final_conclusion
             /\ sessions'[s].completed_at = sessions[s].completed_at]_vars

\* the step submit_answer records for connection k at this instant
StepOf(k) ==
    [node_id |-> connections[k].from_node_id,
     node_text |-> nodes[connections[k].from_node_id].text,
     connection_id |-> k, connection_label |-> connections[k].label,
     timestamp |-> now]

(* C6: there is no mutual exclusion per session: a submit_answer that succeeds
   on an uncompleted session persists the steps it read at its start followed
   by its own step, whatever another call has written to the row since; two
   overlapping calls that read the same steps both return Ok and the steps
   persisted afterwards hold only the later writer's new step. *)
C6_LaterWriteOverwrites ==
    [][\A c \in CallIds :
          (SubmitStore(c) /\ accepted' # accepted) =>
             /\ resp'.kind = "Ok"
             /\ sessions'[calls[c].sid].steps
                  = Append(calls[c].steps, StepOf(calls[c].conn))]_vars

C6_Witness ==
    \E s \in SessionIds :
        /\ accepted[s] = 2
        /\ Len(sessions[s].steps) = 1
        /\ sessions[s].completed_at = None

(* C7: when the submit_answer calls on a session do not overlap, each
   successful call makes the persisted steps the previous steps followed by
   exactly one new step {from_node.id, from_node.text, connection.id,
   connection.label, timestamp}, and nothing else changes the steps. *)
C7_StepsAppendOnly ==
    [][\A s \in SessionIds :
          (accepted'[s] # accepted[s] \/ sessions'[s].steps # sessions[s].steps)
             => /\ accepted'[s] = accepted[s] + 1
                /\ sessions[s].exists
                /\ \E k \in ConnIds :
                      /\ connections[k].exists
                      /\ sessions'[s].steps = Append(sessions[s].steps, StepOf(k))]_vars

C7_Witness ==
    \E s \in SessionIds :
        /\ accepted[s] = 2
        /\ Len(sessions[s].steps) = 2
        /\ sessions[s].steps[1].node_id # sessions[s].steps[2].node_id

(* C8: in every reachable state completed_at is set if and only if
   final_conclusion is set, and once a concluding answer has been accepted
   both are set: the concluding step and the completion fields are written
   by one UPDATE. *)
C8_CompletionFieldsTogether ==
    \A s \in SessionIds :
        /\ (sessions[s].completed_at # None) <=> (sessions[s].final_conclusion # None)
        /\ concluded[s] =>
              /\ sessions[s].completed_at # None
              /\ sessions[s].final_conclusion # None
              /\ sessions[s].steps # <<>>

C8_Witness ==
    \E s \in SessionIds :
        /\ concluded[s]
        /\ sessions[s].completed_at # None
        /\ sessions[s].final_conclusion = Some("Replace brush")

\* what the last submit_answer response says about the row it wrote
C9_Response ==
    (resp.op = "submit_answer" /\ resp.kind = "Ok") =>
        LET session == sessions[resp.sid]
            k == session.steps[Len(session.steps)].connection_id
            to == connections[k].to_node_id
        IN
        /\ resp.node = Some(to)
        /\ resp.is_conclusion = (nodes[to].node_type = "conclusion")
        /\ resp.is_conclusion =>
              /\ resp.conclusion_text = Some(nodes[to].text)
              /\ session.final_conclusion = Some(nodes[to].text)
              /\ session.completed_at # None
              /\ session.abandoned = FALSE
              /\ resp.options = <<>>
        /\ ~resp.is_conclusion => resp.conclusion_text = None

\* an accepted answer that does not conclude leaves completed_at unset
C9_Frame ==
    \A c \in CallIds :
        (SubmitStore(c) /\ accepted' # accepted /\ ~resp'.is_conclusion) =>
            sessions'[calls[c].sid].completed_at = None

(* C9: a successful submit_answer returns is_conclusion = true exactly when the
   submitted connection's to_node is a conclusion; then conclusion_text and the
   persisted final_conclusion are that node's text, abandoned is false and
   options is empty; otherwise conclusion_text is absent, the returned node is
   the to_node and completed_at stays unset. *)
C9_ConclusionOutcome == []C9_Response /\ [][C9_Frame]_vars

(* C10: two consecutive get_session calls on the same session, with no
   submit_answer and no graph mutation between them, return identical node,
   options (same order), is_conclusion and conclusion_text: in every state
   get_session has one possible response. *)
C10_GetSessionDeterministic ==
    \A s \in SessionIds :
        \A r1, r2 \in GetSessionResponses(s) : r1 = r2

(* C11: submit_answer checks in this order: an unknown session gives NotFound;
   a session with completed_at set gives BadRequest whatever the connection;
   an unknown or inactive connection gives NotFound; and every failing call
   leaves the session rows as they were. *)
C11_CheckOrder ==
    [][/\ \A c \in CallIds, s \in SessionIds, k \in ConnIds :
             SubmitLoad(c, s, k) =>
                /\ sessions' = sessions
                /\ ~sessions[s].exists =>
                      /\ resp' = Failure("submit_answer", s, "NotFound")
                      /\ calls' = calls
                /\ (sessions[s].exists /\ sessions[s].completed_at # None) =>
                      /\ resp' = Failure("submit_answer", s, "BadRequest")
                      /\ calls' = calls
       /\ \A c \in CallIds :
             SubmitStore(c) =>
                /\ (~connections[calls[c].conn].exists
                      \/ ~connections[calls[c].conn].is_active) =>
                        resp' = Failure("submit_answer", calls[c].sid, "NotFound")
                /\ resp'.kind # "Ok" => sessions' = sessions]_vars

C11_Witness ==
    \E s \in SessionIds :
        /\ sessions[s].exists
        /\ sessions[s].completed_at = None
        /\ NothingDeleted
        /\ \E k \in ConnIds : ~connections[k].is_active
        /\ resp = Failure("submit_answer", s, "NotFound")

\* the active nodes a start_session request for this category may start on
C12_ActiveStart(category) ==
    {n \in NodeIds :
        /\ nodes[n].exists /\ nodes[n].is_active
        /\ nodes[n].semantic_id =
              IF category = None THEN Some("start")
              ELSE IF category = Some("brush") THEN Some("brush_start")
              ELSE Some("ghost_start")}

(* C12: start_session persists exactly one new session with empty steps and
   completed_at unset and returns the resolved active start node; it fails
   with NotFound when a category is given and no active '<category>_start'
   node exists, with Internal when no category is given and no active global
   'start' node exists; and a failing call persists no session. *)
C12_StartSession ==
    [][\A category \in {None} \cup {Some(c) : c \in RequestCategories} :
          StartSession(category) =>
             /\ C12_ActiveStart(category) = {} =>
                   resp' = Failure("start_session", 0,
                               IF category = None THEN "Internal" ELSE "NotFound")
             /\ resp'.kind # "Ok" => sessions' = sessions
             /\ resp'.kind = "Ok" =>
                   /\ resp'.node \in {Some(n) : n \in C12_ActiveStart(category)}
                   /\ ~sessions[resp'.sid].exists
                   /\ sessions'[resp'.sid].exists
                   /\ sessions'[resp'.sid].steps = <<>>
                   /\ sessions'[resp'.sid].steps_is_array
                   /\ sessions'[resp'.sid].completed_at = None
                   /\ \A t \in SessionIds \ {resp'.sid} :
                         sessions'[t] = sessions[t]]_vars

C12_Witness ==
    /\ resp = Failure("start_session", 0, "Internal")
    /\ \E n \in NodeIds : nodes[n].semantic_id = Some("start") /\ ~nodes[n].is_active
    /\ \A s \in SessionIds : ~sessions[s].exists

(* C13: for any existing session get_session_history succeeds and returns one
   entry per persisted step, in step order, together with completed =
   (completed_at is set) and the session's final_conclusion. *)
C13_HistoryOfEverySession ==
    \A s \in SessionIds :
        sessions[s].exists =>
            \A r \in GetSessionHistoryResponses(s) :
                /\ r.kind = "Ok"
                /\ Len(r.steps) = Len(sessions[s].steps)
                /\ r.completed = (sessions[s].completed_at # None)
                /\ r.final_conclusion = sessions[s].final_conclusion

\* the steps value is not an array, or holds a step without a connection_id
C14_InvalidPayload(session) ==
    \/ ~session.steps_is_array
    \/ \E i \in 1..Len(session.steps) :
          "connection_id" \notin DOMAIN session.steps[i]

C14_Reads ==
    \A s \in SessionIds :
        (sessions[s].exists /\ C14_InvalidPayload(sessions[s])) =>
            /\ \A r \in GetSessionResponses(s) : r.kind = "Internal"
            /\ \A r \in GetSessionHistoryResponses(s) : r.kind = "Internal"

C14_Submit ==
    \A c \in CallIds :
        (SubmitStore(c) /\ C14_InvalidPayload(sessions[calls[c].sid])) =>
            /\ resp' = Failure("submit_answer", calls[c].sid, "Internal")
            /\ sessions' = sessions

(* C14: when a session's persisted steps payload is structurally invalid (not
   an array, or a step without a usable connection_id), get_session,
   submit_answer and get_session_history fail with Internal and do not modify
   the session; the payload is never read as an empty step list. *)
C14_InvalidPayloadIsInternal == []C14_Reads /\ [][C14_Submit]_vars

\* the active outgoing connections of n by ascending order_index, then id
C15_OrderedOptions(n) ==
    LET S == {k \in ConnIds : /\ connections[k].exists
                              /\ connections[k].is_active
                              /\ connections[k].from_node_id = n}
        seq == CHOOSE q \in [1..Cardinality(S) -> S] :
                  \A i, j \in 1..Cardinality(S) :
                     i < j =>
                        \/ connections[q[i]].order_index
                              < connections[q[j]].order_index
                        \/ /\ connections[q[i]].order_index
                                = connections[q[j]].order_index
                           /\ q[i] < q[j]
    IN [i \in 1..Cardinality(S) |->
          [connection_id |-> seq[i], label |-> connections[seq[i]].label,
           target_category |-> nodes[connections[seq[i]].to_node_id].category]]

(* C15: the options returned by start_session, submit_answer and get_session
   are exactly the active outgoing connections of the returned node, in
   ascending order_index with ties broken by connection id. *)
C15_OptionsOrdered ==
    /\ (/\ resp.op \in {"start_session", "submit_answer"}
        /\ resp.kind = "Ok"
        /\ ~resp.is_conclusion)
          => resp.options = C15_OrderedOptions(resp.node[1])
    /\ \A s \in SessionIds :
          \A r \in GetSessionResponses(s) :
             (r.kind = "Ok" /\ ~r.is_conclusion)
                => r.options = C15_OrderedOptions(r.node[1])

\* C16: a get(k) that follows set(k, v) before the TTL has elapsed, with no
\* invalidate(k), clear or further set(k, _) in between, returns v; a get of
\* a key that was never set returns a miss.  An eviction of k by a set at
\* capacity is not among the exclusions, so it is allowed in between.
C16_GetAfterSet ==
    [][\A c \in CacheCallIds : CacheGet(c) =>
          LET w == written[cacheCalls[c].key] IN
          /\ (w.kind \in {"set", "evicted"} /\ clock < w.at + CacheTtl)
                => got'.value = Some(w.value)
          /\ w.kind = "none" => got'.value = None]_vars

\* C16 (amended): as C16, for a key that no set at capacity evicted since
\* the set(k, v).
C16_GetAfterSetUnlessEvicted ==
    [][\A c \in CacheCallIds : CacheGet(c) =>
          LET w == written[cacheCalls[c].key] IN
          /\ (w.kind = "set" /\ clock < w.at + CacheTtl)
                => got'.value = Some(w.value)
          /\ w.kind = "none" => got'.value = None]_vars

\* a get returned the value of the last set of its key while another key
\* had been evicted
C16_Witness ==
    /\ got.op = "get"
    /\ got.value = Some("v2")
    /\ written[got.key].kind = "set"
    /\ written[got.key].value = "v2"
    /\ clock < written[got.key].at + CacheTtl
    /\ \E k \in CacheKeys : written[k].kind = "evicted"
    /\ \A c \in CacheCallIds : cacheCalls[c].pc = "idle"

\* C17: a get(k) issued once the TTL has elapsed since the most recent
\* set(k, _) returns a miss, and the get removes nothing from the store (an
\* expired entry stays stored).
C17_GetAfterExpiry ==
    [][\A c \in CacheCallIds : CacheGet(c) =>
          LET w == written[cacheCalls[c].key] IN
          /\ (w.kind \in {"set", "evicted"} /\ clock >= w.at + CacheTtl)
                => got'.value = None
          /\ store' = store]_vars

\* a get missed on an entry that is still stored, once its TTL had elapsed
C17_Witness ==
    /\ got.op = "get"
    /\ got.value = None
    /\ store[got.key].present
    /\ written[got.key].kind = "set"
    /\ clock >= written[got.key].at + CacheTtl
    /\ \A c \in CacheCallIds : cacheCalls[c].pc = "idle"

\* C18: after invalidate(k) a get(k) returns a miss until the next
\* set(k, _), however much of the TTL remained, and invalidate(k) changes no
\* other key's entry.
C18_InvalidateMisses ==
    [][\A c \in CacheCallIds :
          /\ (CacheGet(c) /\ written[cacheCalls[c].key].kind = "invalidate")
                => got'.value = None
          /\ CacheInvalidate(c)
                => \A k \in CacheKeys \ {cacheCalls[c].key} : store'[k] = store[k]]_vars

\* a get missed on a key that was invalidated while its entry was within
\* the TTL, and another key's entry is still stored
C18_Witness ==
    /\ got.op = "get"
    /\ got.value = None
    /\ written[got.key].kind = "invalidate"
    /\ written[got.key].value = "v1"
    /\ clock < written[got.key].at + CacheTtl
    /\ \E k \in CacheKeys \ {got.key} : store[k].present /\ Unexpired(store[k])
    /\ \A c \in CacheCallIds : cacheCalls[c].pc = "idle"

\* C19: with max_size >= 1 the number of stored entries, expired ones
\* included, never exceeds max_size; a set of a key that is not stored,
\* issued at capacity, removes exactly one stored entry, keeps the others as
\* they were and leaves the inserted key stored.
C19_SizeBound ==
    /\ CacheMaxSize >= 1
    /\ Cardinality(StoredKeys(store)) <= CacheMaxSize

C19_NewKeyAtCapacity ==
    \A c \in CacheCallIds :
        (/\ CacheSet(c)
         /\ ~store[cacheCalls[c].key].present
         /\ Cardinality(StoredKeys(store)) >= CacheMaxSize)
        => /\ Cardinality(StoredKeys(store) \ StoredKeys(store')) = 1
           /\ StoredKeys(store') \ StoredKeys(store) = {cacheCalls[c].key}
           /\ \A k \in StoredKeys(store) \cap StoredKeys(store') : store'[k] = store[k]

C19_BoundedSize == []C19_SizeBound /\ [][C19_NewKeyAtCapacity]_vars

\* the cache is full with a key set at instant 0 and a key set at instant 1,
\* and the third key, set at instant 1, was evicted: the evicting set was
\* that of the new key, issued while the other two were stored
C19_Witness ==
    \E k, j, m \in CacheKeys :
        /\ k # j /\ k # m /\ j # m
        /\ written[k].kind = "evicted" /\ written[k].at = 1 /\ ~store[k].present
        /\ written[j].kind = "set" /\ written[j].at = 0 /\ store[j].present
        /\ written[m].kind = "set" /\ written[m].at = 1 /\ store[m].present

\* C20: the reader/writer lock serialises the cache: while a set, invalidate,
\* clear or cleanup holds the lock no other operation holds it, get and stats
\* may hold it together, the map changes only in the step of the one writer
\* that holds the lock, and a get or stats reads the map while no writer
\* holds the lock, that is after a complete prefix of the writes.
C20_WriterExcludesAll ==
    \A c, d \in CacheCallIds :
        (c # d /\ cacheCalls[c].pc = "writing") => cacheCalls[d].pc = "idle"

C20_WholeWrites ==
    /\ store' # store =>
          \E c \in CacheCallIds :
              /\ cacheCalls[c].pc = "writing" /\ cacheCalls'[c].pc = "idle"
              /\ \A d \in CacheCallIds \ {c} : cacheCalls[d].pc = "idle"
    /\ \A c \in CacheCallIds :
          (CacheGet(c) \/ CacheStats(c)) =>
              \A d \in CacheCallIds : cacheCalls[d].pc # "writing"

C20_Serialized == []C20_WriterExcludesAll /\ [][C20_WholeWrites]_vars

\* a get and a stats hold the read lock together over a non-empty map
C20_Witness ==
    /\ \E c, d \in CacheCallIds :
          /\ c # d
          /\ cacheCalls[c].pc = "reading" /\ cacheCalls[c].op = "get"
          /\ cacheCalls[d].pc = "reading" /\ cacheCalls[d].op = "stats"
    /\ StoredKeys(store) # {}

\* C21: every node, edge or category mutation removes the cache entry
\* 'graph_<category>' of each category it affects: after a step that changes
\* the rows get_issue_graph reads for a category, the cache holds no entry
\* under that category's key.
C21_MutationsInvalidate ==
    [][\A category \in AdminCategories :
          IssueGraph(category)' # IssueGraph(category)
              => ~store'[GraphCacheKey(category)].present]_vars

\* C22: get_issue_graph served through the cache returns what the uncached
\* reconstruction returns: the currently active nodes of the category and
\* the currently active edges whose source is one of them, NotFound when the
\* category has no active node.
C22_Uncached(category) ==
    IF ActiveNodesOfCategory(category) = {}
    THEN GraphResponse(category, "NotFound", NoGraph)
    ELSE GraphResponse(category, "Ok", IssueGraph(category))

C22_CachedEqualsUncached ==
    [][\A category \in AdminCategories :
          GetIssueGraph(category) => resp' = C22_Uncached(category)]_vars

\* C23: a toggle_issue that would turn a category on with force = false
\* fails with Validation when the category has at least one Question node
\* with zero active outgoing edges, and then changes no node's and no
\* connection's active flag.
C23_DeadEndQuestions(category) ==
    {n \in NodesOfCategory(category) :
        nodes[n].node_type = "question" /\ ActiveOutgoing(n) = {}}

C23_ActivationRejected ==
    [][\A category \in AdminCategories :
          (/\ ToggleIssue(category, FALSE)
           /\ NodesOfCategory(category) # {}
           /\ ~nodes[RootNode(category)].is_active
           /\ C23_DeadEndQuestions(category) # {})
          => /\ resp'.kind = "Validation"
             /\ nodes' = nodes
             /\ connections' = connections]_vars

\* C24: the dead-end set the activation check computes for a category is
\* exactly the set of that category's active Question nodes that have zero
\* active outgoing edges.
C24_ActiveDeadEnds(category) ==
    {n \in NodesOfCategory(category) :
        /\ nodes[n].is_active
        /\ nodes[n].node_type = "question"
        /\ ActiveOutgoing(n) = {}}

C24_DeadEndSet ==
    [][\A category \in AdminCategories :
          (/\ ToggleIssue(category, FALSE)
           /\ NodesOfCategory(category) # {}
           /\ ~nodes[RootNode(category)].is_active)
          => IncompleteNodes(category) = C24_ActiveDeadEnds(category)]_vars

\* C25: toggle_issue on an existing category succeeds whenever it turns the
\* category off or force = true, whatever dead-end nodes the category has.
C25_OffOrForcedSucceeds ==
    [][\A category \in AdminCategories, force \in BOOLEAN :
          (/\ ToggleIssue(category, force)
           /\ NodesOfCategory(category) # {}
           /\ (nodes[RootNode(category)].is_active \/ force))
          => resp'.kind = "Ok"]_vars

\* toggle_issue answered Ok and left the category 'brush' switched off while
\* its Question 'Check motor?' has no active outgoing edge
C25_Witness ==
    /\ resp.op = "toggle_issue"
    /\ resp.kind = "Ok"
    /\ NodesOfCategory("brush") # {}
    /\ \A n \in NodesOfCategory("brush") : ~nodes[n].is_active
    /\ C23_DeadEndQuestions("brush") # {}

\* C26: a successful toggle_issue sets the active flag of every node of the
\* category, and of the edge from the global start node into the category's
\* root node, to the new status; every other node and every other
\* connection keeps its active flag (and the rest of its row).
C26_ToggleFrame ==
    [][\A category \in AdminCategories, force \in BOOLEAN :
          (/\ ToggleIssue(category, force)
           /\ NodesOfCategory(category) # {}
           /\ resp'.kind = "Ok")
          => LET root == RootNode(category)
                 new_status == ~nodes[root].is_active
             IN
             /\ \A n \in NodeIds :
                   nodes'[n] = IF n \in NodesOfCategory(category)
                               THEN [nodes[n] EXCEPT !.is_active = new_status]
                               ELSE nodes[n]
             /\ \A k \in ConnIds :
                   connections'[k] =
                       IF /\ connections[k].exists
                          /\ connections[k].to_node_id = root
                          /\ connections[k].from_node_id \in StartRows
                       THEN [connections[k] EXCEPT !.is_active = new_status]
                       ELSE connections[k]]_vars

\* C27: create_issue for a category that already has at least one node
\* fails with Conflict and creates no node and no connection.
C27_DuplicateIsConflict ==
    [][\A category \in AdminCategories, name \in IssueNames :
          (CreateIssue(category, name) /\ NodesOfCategory(category) # {})
          => /\ resp'.kind = "Conflict"
             /\ nodes' = nodes
             /\ connections' = connections]_vars

\* C30: the edge from the global start node into a category's root node is
\* active if and only if the category's nodes are active; checked in the
\* state that a successful create_issue, update_issue with is_active or
\* toggle_issue of the category leaves behind.
C30_StartEdgeMatches(category) ==
    \A k \in ConnIds, n \in NodesOfCategory(category) :
        (/\ connections[k].exists
         /\ connections[k].from_node_id \in StartRows
         /\ connections[k].to_node_id = RootNode(category))
        => connections[k].is_active = nodes[n].is_active

C30_StartEdgeConsistent ==
    [][\A category \in AdminCategories \ {"root"} :
          (/\ \/ \E name \in IssueNames : CreateIssue(category, name)
              \/ \E is_active \in BOOLEAN : UpdateIssue(category, is_active)
              \/ \E force \in BOOLEAN : ToggleIssue(category, force)
           /\ resp'.kind = "Ok")
          => C30_StartEdgeMatches(category)']_vars

\* C28: for each ip at most max_requests calls of check_rate_limit return Ok
\* within one window; a further call in the same window returns Err and
\* leaves the stored count as it was; a call for one ip changes neither the
\* entry nor the history of another ip.
RECURSIVE C28_GrantedFrom(_, _)
C28_GrantedFrom(ip, t) ==
    IF t > MaxRateTime THEN 0 ELSE granted[ip][t] + C28_GrantedFrom(ip, t + 1)

C28_WindowBound ==
    \A ip \in Ips :
        entries[ip].present =>
            /\ C28_GrantedFrom(ip, entries[ip].window_start) <= MaxRequests
            /\ C28_GrantedFrom(ip, entries[ip].window_start) = entries[ip].count

C28_Check ==
    \A ip \in Ips :
        CheckRateLimit(ip) =>
            /\ (/\ entries[ip].present
                /\ ~WindowExpired(entries[ip], clock)
                /\ C28_GrantedFrom(ip, entries[ip].window_start) >= MaxRequests)
                 => /\ rateResp' = RateResult(ip, "Err")
                    /\ entries'[ip] = entries[ip]
            /\ rateResp'.result = "Err" => entries'[ip].count = entries[ip].count
            /\ \A other \in Ips \ {ip} :
                  entries'[other] = entries[other] /\ granted'[other] = granted[other]

C28_PerIpLimit == []C28_WindowBound /\ [][C28_Check]_vars

\* ip1 was refused at its limit while ip2 has used one request of its own
C28_Witness ==
    /\ rateResp = RateResult("ip1", "Err")
    /\ entries["ip1"].present /\ entries["ip1"].count = MaxRequests
    /\ entries["ip2"].present /\ entries["ip2"].count = 1

\* C29: once more than window_duration has elapsed since an ip's window
\* start, its next check_rate_limit succeeds with a fresh count of 1, whether
\* the entry is still stored or cleanup removed it; cleanup removes only
\* entries whose window has expired and changes the result of no later
\* check_rate_limit.
C29_Check ==
    \A ip \in Ips :
        (/\ CheckRateLimit(ip)
         /\ \/ ~entries[ip].present
            \/ clock - entries[ip].window_start > WindowDuration)
        => /\ rateResp' = RateResult(ip, "Ok")
           /\ entries'[ip] = RateLimitEntry(1, clock)

C29_Cleanup ==
    RateCleanup =>
        \A ip \in Ips :
            /\ entries'[ip] # entries[ip] =>
                  /\ entries[ip].present
                  /\ clock - entries[ip].window_start > WindowDuration
                  /\ entries'[ip] = NoRateEntry
            /\ \A t \in clock..MaxRateTime :
                  /\ CheckResult(entries'[ip], t) = CheckResult(entries[ip], t)
                  /\ AfterCheck(entries'[ip], t) = AfterCheck(entries[ip], t)

C29_WindowReset == [][C29_Check /\ C29_Cleanup]_vars

\* ip1 starts a fresh window with count 1 after an earlier window in which it
\* was served, and the entry of ip2, which was served too, has been removed
\* by cleanup
C29_Witness ==
    /\ rateResp = RateResult("ip1", "Ok")
    /\ entries["ip1"] = RateLimitEntry(1, clock)
    /\ \E t \in RateTimes : t + WindowDuration < clock /\ granted["ip1"][t] > 0
    /\ ~entries["ip2"].present
    /\ \E t \in RateTimes : granted["ip2"][t] > 0

(* C31: in every reachable state the steps of a session form a connected
   walk: the node_id of the first step is the start node that start_session
   resolved for the session, and the node_id of each later step is the
   to_node of the connection of the step before it. *)
C31_ConnectedWalk ==
    \A s \in SessionIds :
        LET steps == sessions[s].steps IN
        (sessions[s].exists /\ steps # <<>>) =>
            /\ Some(steps[1].node_id) = started[s]
            /\ \A i \in 2..Len(steps) :
                  /\ connections[steps[i - 1].connection_id].exists
                  /\ steps[i].node_id
                       = connections[steps[i - 1].connection_id].to_node_id

(* C32: get_session reports is_conclusion = true for a session if and only if
   the session's completed_at is set, so that a session shown as concluded is
   one that submit_answer rejects as completed and a session shown with
   options is one that it does not. *)
C32_ConclusionIffCompleted ==
    \A s \in SessionIds :
        sessions[s].exists =>
            \A r \in GetSessionResponses(s) :
                r.kind = "Ok" =>
                    (r.is_conclusion <=> SessionCompleted(sessions[s]))

\* two stored sessions that are uncompleted and differ in abandoned only
C33_Twins(a, b) ==
    /\ sessions[a].exists /\ sessions[b].exists
    /\ sessions[a].completed_at = None /\ sessions[b].completed_at = None
    /\ sessions[a].abandoned # sessions[b].abandoned
    /\ [sessions[a] EXCEPT !.abandoned = FALSE]
         = [sessions[b] EXCEPT !.abandoned = FALSE]

\* a response or an in-flight call without the session it belongs to
C33_Unsided(r) == [r EXCEPT !.sid = 0]

\* what the first half of submit_answer can answer or hand on
C33_LoadOutcomes(k) ==
    [resp : {C33_Unsided(resp)}
              \cup {Failure("submit_answer", 0, kind) :
                       kind \in {"NotFound", "BadRequest"}},
     call : {IdleCall} \cup {[pc |-> "loaded", sid |-> 0, conn |-> k, steps |-> st] :
                                st \in {ParsedSteps(sessions[s]) : s \in TwinIds}}]

C33_LoadGives(c, s, k, o) ==
    ENABLED (/\ SubmitLoad(c, s, k)
             /\ C33_Unsided(resp') = o.resp
             /\ C33_Unsided(calls'[c]) = o.call)

\* what the second half of submit_answer can answer and persist
C33_StoreOutcomes(c) ==
    [resp : {Failure("submit_answer", 0, kind) :
               kind \in {"NotFound", "BadRequest", "Internal"}}
            \cup {Response("submit_answer", 0, "Ok", Some(n), options, b, text) :
                     n \in {m \in NodeIds : nodes[m].exists},
                     options \in {<<>>} \cup UNION {OptionLists(m) :
                                     m \in {x \in NodeIds : nodes[x].exists
                                              /\ TargetsExist(ActiveOutgoing(x))}},
                     b \in BOOLEAN,
                     text \in {None} \cup {Some(nodes[m].text) : m \in NodeIds}},
     steps : {sessions[calls[c].sid].steps}
             \cup {Append(calls[c].steps, StepOf(k)) :
                      k \in {j \in ConnIds : connections[j].exists}},
     completed_at : {None, Some(now)},
     final_conclusion : {None} \cup {Some(nodes[m].text) : m \in NodeIds}]

C33_StoreGives(c, o) ==
    ENABLED (/\ SubmitStore(c)
             /\ C33_Unsided(resp') = o.resp
             /\ sessions'[calls[c].sid].steps = o.steps
             /\ sessions'[calls[c].sid].completed_at = o.completed_at
             /\ sessions'[calls[c].sid].final_conclusion = o.final_conclusion)

C33_SameOutcome ==
    \A a, b \in TwinIds :
        C33_Twins(a, b) =>
            /\ \A c \in CallIds, k \in ConnIds :
                  \A o \in C33_LoadOutcomes(k) :
                      C33_LoadGives(c, a, k, o) <=> C33_LoadGives(c, b, k, o)
            /\ \A c, d \in CallIds :
                  (/\ calls[c].pc = "loaded" /\ calls[c].sid = a
                   /\ calls[d].pc = "loaded" /\ calls[d].sid = b
                   /\ calls[c].conn = calls[d].conn
                   /\ calls[c].steps = calls[d].steps)
                  => /\ \E o \in C33_StoreOutcomes(c) : C33_StoreGives(c, o)
                     /\ \A o \in C33_StoreOutcomes(c) :
                           C33_StoreGives(c, o) <=> C33_StoreGives(d, o)

C33_NeverSet ==
    \A s \in TwinIds : sessions'[s].abandoned => sessions[s].abandoned

(* C33: submit_answer ignores the abandoned flag: on two uncompleted sessions
   that differ only in abandoned, the same connection_id yields the same
   response and the same persisted steps, completed_at and final_conclusion;
   and no operation of the engine ever sets abandoned to true. *)
C33_AbandonedIgnored == []C33_SameOutcome /\ [][C33_NeverSet]_vars

\* the same answer is in flight on a flagged session and on its unflagged
\* twin, both of which have answered once already
C33_Witness ==
    /\ C33_Twins(1, 2)
    /\ sessions[2].abandoned
    /\ Len(sessions[2].steps) = 1
    /\ \E c, d \in CallIds :
          /\ calls[c].pc = "loaded" /\ calls[c].sid = 1
          /\ calls[d].pc = "loaded" /\ calls[d].sid = 2
          /\ calls[c].conn = calls[d].conn
          /\ calls[c].steps = calls[d].steps

\* every option of the response just returned leads to an active node
C34_OptionsActive ==
    \A i \in 1..Len(resp'.options) :
        nodes[connections[resp'.options[i].connection_id].to_node_id].is_active

(* C34: after any soft-deletes of nodes and toggles of categories, a
   submit_answer that succeeds puts the session on a node whose is_active is
   true, and every option that start_session or submit_answer returns leads
   to a node whose is_active is true. *)
C34_OnlyActiveNodes ==
    [][/\ \A c \in CallIds :
             (SubmitStore(c) /\ resp'.kind = "Ok") =>
                 /\ nodes[resp'.node[1]].is_active
                 /\ C34_OptionsActive
       /\ \A category \in {None} \cup {Some(c) : c \in RequestCategories} :
             (StartSession(category) /\ resp'.kind = "Ok") => C34_OptionsActive]_vars

(* C35: get_session and get_session_history are pure reads: whether the call
   succeeds or fails, no session, node, connection or cache entry changes. *)
C35_PureReads ==
    [][\A s \in SessionIds :
          (GetSession(s) \/ GetSessionHistory(s)) =>
              /\ sessions' = sessions
              /\ nodes' = nodes
              /\ connections' = connections
              /\ store' = store]_vars

\* a completed session on which get_session succeeds with a conclusion and
\* get_session_history fails
C35_Witness ==
    \E s \in SessionIds :
        /\ sessions[s].completed_at # None
        /\ \E r \in GetSessionResponses(s) : r.kind = "Ok" /\ r.is_conclusion
        /\ \E h \in GetSessionHistoryResponses(s) : h.kind # "Ok"

\* the flags of the category's nodes, and of the connections into root, are
\* after the step what they are in the tables n0 and c0
C36_Restored(category, root, n0, c0) ==
    /\ \A n \in NodeIds :
          (n0[n].exists /\ n0[n].category = category)
             => nodes'[n].is_active = n0[n].is_active
    /\ \A k \in ConnIds :
          (c0[k].exists /\ c0[k].to_node_id = root)
             => connections'[k].is_active = c0[k].is_active

(* C36: toggling an active category off and then on again with force = true
   restores the is_active of each of its nodes, and of each connection into
   its root node, to the value it had before the two toggles, so that a node
   or connection that was soft-deleted on its own stays inactive. *)
C36_ToggleRoundTrip ==
    \A category \in AdminCategories :
        (NodesOfCategory(category) # {} /\ nodes[RootNode(category)].is_active)
        => \A n0 \in {nodes}, c0 \in {connections}, root \in {RootNode(category)} :
             ~ENABLED (/\ \E force \in BOOLEAN : ToggleIssue(category, force)
                       /\ resp'.kind = "Ok"
                       /\ (ENABLED (/\ ToggleIssue(category, TRUE)
                                    /\ resp'.kind = "Ok"
                                    /\ ~C36_Restored(category, root, n0, c0)))')

(* C37: Cache::set(k, v) for a key k that is already stored only replaces
   k's value and expiry: no other key is removed, even when the cache is at
   capacity. *)
C37_SetExistingKeepsOthers ==
    [][\A c \in CacheCallIds :
          (CacheSet(c) /\ store[cacheCalls[c].key].present) =>
              /\ store'[cacheCalls[c].key]
                   = CacheEntry(cacheCalls[c].value, clock + CacheTtl)
              /\ \A other \in CacheKeys \ {cacheCalls[c].key} :
                    store'[other] = store[other]]_vars

\* stats: store.len() and the number of entries with now < expires_at
C38_TotalEntries == Cardinality(StoredKeys(store))

C38_ActiveEntries ==
    Cardinality({k \in StoredKeys(store) : clock < store[k].expires_at})

(* C38: Cache::cleanup removes exactly the entries whose TTL has elapsed and
   keeps every unexpired entry; for every key the result of get is the same
   immediately before and after it; and stats right after it reports
   expired_entries = 0 and the active_entries it would have reported before. *)
C38_CleanupRemovesExpired ==
    [][\A c \in CacheCallIds :
          CacheCleanup(c) =>
              /\ \A k \in CacheKeys :
                    /\ store'[k] # store[k] =>
                          /\ store[k].present
                          /\ clock >= store[k].expires_at
                          /\ store'[k] = NoEntry
                    /\ (store[k].present /\ clock >= store[k].expires_at)
                          => ~store'[k].present
                    /\ CacheGetResult(k)' = CacheGetResult(k)
              /\ C38_TotalEntries' - C38_ActiveEntries' = 0
              /\ C38_ActiveEntries' = C38_ActiveEntries]_vars

\* cleanup has removed an expired entry, the last write of whose key was a
\* set, and has kept an entry that is not expired
C38_Witness ==
    /\ \E k \in CacheKeys : ~store[k].present /\ written[k].kind = "set"
    /\ \E k \in CacheKeys : store[k].present /\ clock < store[k].expires_at
    /\ got.op = "stats" /\ got.total_entries = 1 /\ got.active_entries = 1

(* C39: under fair scheduling every cache operation (get, set, invalidate,
   clear, cleanup, stats) that has been called eventually gets the lock and
   completes: no interleaving of readers and writers blocks one forever. *)
C39_EveryCallCompletes ==
    \A c \in CacheCallIds :
        (cacheCalls[c].pc # "idle") ~> (cacheCalls[c].pc = "idle")

\* a writer waits at the head of the queue for a reader that holds the lock,
\* and a later reader waits behind the writer
C39_Witness ==
    \E c, d, e \in CacheCallIds :
        /\ cacheCalls[c].pc = "reading"
        /\ cacheCalls[d].pc = "waiting" /\ ~IsReadOp(cacheCalls[d].op)
        /\ cacheCalls[d].ticket = 1
        /\ cacheCalls[e].pc = "waiting" /\ IsReadOp(cacheCalls[e].op)
        /\ cacheCalls[e].ticket = 2

====
